---- MODULE Spec2Model ----
(***************************************************************************)
(* Model of the S3-backed SFTP driver (src/s3driver.go).                   *)
(*                                                                         *)
(* A string is a sequence of one-character strings, so that prefix and     *)
(* suffix tests, trimming, concatenation and filepath.Clean are computed   *)
(* character by character as the Go code computes them.                    *)
(***************************************************************************)
EXTENDS Naturals, Sequences, FiniteSets

VARIABLES
    prefix,           \* S3Driver.prefix: the root prefix
    homePath,         \* S3Driver.homePath
    remoteIPAddress,  \* the origin recorded for the session: [host, port]
    blockList,        \* BLOCK_DOWNLOADS_IP_ADDRESSES: the set of blocked hosts
    store,            \* the objects of the bucket: a set of [key, body, mtime]
    listing,          \* the pages the store returns to the listing requests of ListDir
    calls,            \* the storage calls issued by the operation in progress, in order
    last              \* the operation in progress: its arguments and what it returns

vars == <<prefix, homePath, remoteIPAddress, blockList, store, listing, calls, last>>

(***************************************************************************)
(* Bounds of the model.                                                    *)
(***************************************************************************)
MaxPathLen == 6

MaxObjects == 2

MaxPages == 2

MaxListed == 3

(***************************************************************************)
(* Program constants.                                                      *)
(***************************************************************************)
DirSize == 4096

DirMtime == 1

(***************************************************************************)
(* Strings.                                                                *)
(***************************************************************************)
Sep == "/"

Alphabet == {".", "/", "a"}

Str(n) == UNION {[1..k -> Alphabet] : k \in 0..n}

\* Byte order of the characters (UTF-8 code points), used by the store's listing.
Ord(c) == CASE c = "." -> 46 [] c = "/" -> 47 [] c = "a" -> 97 [] OTHER -> 98

HasPrefix(s, p) == Len(p) <= Len(s) /\ SubSeq(s, 1, Len(p)) = p

HasSuffix(s, p) == Len(p) <= Len(s) /\ SubSeq(s, Len(s) - Len(p) + 1, Len(s)) = p

TrimPrefix(s, p) == IF HasPrefix(s, p) THEN SubSeq(s, Len(p) + 1, Len(s)) ELSE s

TrimSuffix(s, p) == IF HasSuffix(s, p) THEN SubSeq(s, 1, Len(s) - Len(p)) ELSE s

RECURSIVE TrimLeft(_, _)
TrimLeft(s, c) == IF s # <<>> /\ Head(s) = c THEN TrimLeft(Tail(s), c) ELSE s

RECURSIVE TrimRight(_, _)
TrimRight(s, c) ==
    IF s # <<>> /\ s[Len(s)] = c THEN TrimRight(SubSeq(s, 1, Len(s) - 1), c) ELSE s

(***************************************************************************)
(* filepath.Clean (Unix), as Go's lazybuf loop computes it: r is the read  *)
(* position (1-based), out the output buffer, dotdot the length of the     *)
(* output that ".." may not back over.                                     *)
(***************************************************************************)
RECURSIVE Backtrack(_, _, _)
Backtrack(buf, w, dotdot) ==
    IF w > dotdot /\ buf[w + 1] # Sep THEN Backtrack(buf, w - 1, dotdot) ELSE w

RECURSIVE ElementEnd(_, _)
ElementEnd(path, r) ==
    IF r <= Len(path) /\ path[r] # Sep THEN ElementEnd(path, r + 1) ELSE r

RECURSIVE CleanLoop(_, _, _, _, _)
CleanLoop(path, r, out, dotdot, rooted) ==
    LET n == Len(path) IN
    IF r > n THEN (IF out = <<>> THEN <<".">> ELSE out)
    ELSE IF path[r] = Sep THEN CleanLoop(path, r + 1, out, dotdot, rooted)
    ELSE IF path[r] = "." /\ (r = n \/ path[r + 1] = Sep)
         THEN CleanLoop(path, r + 1, out, dotdot, rooted)
    ELSE IF path[r] = "." /\ path[r + 1] = "." /\ (r + 1 = n \/ path[r + 2] = Sep)
         THEN IF Len(out) > dotdot
              THEN CleanLoop(path, r + 2,
                             SubSeq(out, 1, Backtrack(out, Len(out) - 1, dotdot)),
                             dotdot, rooted)
              ELSE IF ~rooted
              THEN LET o2 == (IF Len(out) > 0 THEN Append(out, Sep) ELSE out)
                                 \o <<".", ".">>
                   IN CleanLoop(path, r + 2, o2, Len(o2), rooted)
              ELSE CleanLoop(path, r + 2, out, dotdot, rooted)
    ELSE LET o2 == IF (rooted /\ Len(out) # 1) \/ (~rooted /\ Len(out) # 0)
                   THEN Append(out, Sep) ELSE out
             e  == ElementEnd(path, r)
         IN CleanLoop(path, e, o2 \o SubSeq(path, r, e - 1), dotdot, rooted)

Clean(path) ==
    IF path = <<>> THEN <<".">>
    ELSE IF path[1] = Sep THEN CleanLoop(path, 2, <<Sep>>, 1, TRUE)
    ELSE CleanLoop(path, 1, <<>>, 0, FALSE)

(***************************************************************************)
(* TranslatePath(prefix, home, path).                                      *)
(***************************************************************************)
TranslatePath(pre, home, path) ==
    IF path = <<>> THEN Clean(<<Sep>> \o pre \o <<Sep>> \o home)
    ELSE LET abs == Clean(pre \o path)
             cleanPath ==
                 IF HasPrefix(path, <<Sep>>)
                 THEN (IF ~HasPrefix(abs, pre) THEN pre ELSE abs)
                 ELSE Clean(<<Sep>> \o pre \o <<Sep>> \o home \o Clean(<<Sep>> \o path))
             restored == IF HasSuffix(path, <<Sep>>) THEN Append(cleanPath, Sep)
                         ELSE cleanPath
         IN TrimLeft(restored, Sep)

(***************************************************************************)
(* Driver configurations (NewS3Driver): the bucket, the root prefix and    *)
(* the home path, fixed at construction.                                   *)
(***************************************************************************)
Bucket == <<"b">>

Prefixes == {<<>>, <<"a">>}

Homes == {<<"a">>, <<"/", "a">>}

NoOp == [op |-> "none"]

(***************************************************************************)
(* The object store behind the S3 interface.  store is a set of objects,   *)
(* at most one per key.  Bodies are byte sequences; the store stamps every *)
(* write with a modification time.                                         *)
(***************************************************************************)
Times == {1, 2}

Bodies == {<<7>>}

Keys(st) == {o.key : o \in st}

Object(st, key) == CHOOSE o \in st : o.key = key

S3PutObject(st, key, body, t) ==
    {o \in st : o.key # key} \cup {[key |-> key, body |-> body, mtime |-> t]}

S3DeleteObject(st, key) == {o \in st : o.key # key}

\* CopySource is "<bucket>/<key>"; the copy is server-side and rewrites the
\* destination with the source's body.
S3CopyObject(st, source, key, t) ==
    S3PutObject(st, key, Object(st, TrimPrefix(source, Bucket \o <<Sep>>)).body, t)

RECURSIVE LexLess(_, _)
LexLess(s, t) ==
    IF t = <<>> THEN FALSE
    ELSE IF s = <<>> THEN TRUE
    ELSE IF Head(s) # Head(t) THEN Ord(Head(s)) < Ord(Head(t))
    ELSE LexLess(Tail(s), Tail(t))

RECURSIVE SortedKeys(_)
SortedKeys(ks) ==
    IF ks = {} THEN <<>>
    ELSE LET m == CHOOSE k \in ks : \A j \in ks \ {k} : LexLess(k, j)
         IN <<m>> \o SortedKeys(ks \ {m})

\* ListObjectsV2 without a delimiter: the keys that begin with pfx, in byte
\* order, at most maxKeys of them.
S3ListObjectsV2(st, pfx, maxKeys) ==
    LET all == SortedKeys({k \in Keys(st) : HasPrefix(k, pfx)})
        n   == IF Len(all) < maxKeys THEN Len(all) ELSE maxKeys
    IN [contents |-> [i \in 1..n |-> [key |-> all[i],
                                       size |-> Len(Object(st, all[i]).body),
                                       mtime |-> Object(st, all[i]).mtime]],
        keyCount |-> n]

(***************************************************************************)
(* The operations of S3Driver.  Every operation is one action: it          *)
(* translates its path, issues its storage calls (logged in calls, each    *)
(* of which the store may fail) and records what it returns in last.       *)
(***************************************************************************)
DriverPaths ==
    {<<"a">>, <<"a", "/">>, <<"a", ".">>, <<"a", "/", "a">>,
     <<".", ".", "/", ".", ".", "/", "a">>}

Unchanged == UNCHANGED <<prefix, homePath, remoteIPAddress, listing>>

\* The protocol server issues one request at a time on a session: an
\* operation starts when the previous one has returned.
Idle == last.op = "none"

Return ==
    /\ ~Idle
    /\ last' = NoOp
    /\ calls' = <<>>
    /\ UNCHANGED <<store, blockList>>
    /\ Unchanged

\* StatInfo gone wrong: the directory test made on the translated path.
StatInfoByPath(localPath, resp) ==
    IF resp.contents = <<>> \/ resp.keyCount = 0 THEN [err |-> "ErrNotExist"]
    ELSE LET matched == resp.contents[1] IN
         IF HasSuffix(localPath, <<Sep>>)
         THEN [err |-> "nil", name |-> TrimRight(localPath, Sep), mode |-> "ModeDir",
               size |-> matched.size, mtime |-> matched.mtime, key |-> matched.key]
         ELSE [err |-> "nil", name |-> localPath, mode |-> "ModePerm",
               size |-> matched.size, mtime |-> matched.mtime, key |-> matched.key]

StatInfo(localPath, resp) ==
    IF resp.contents = <<>> \/ resp.keyCount = 0 THEN [err |-> "ErrNotExist"]
    ELSE LET matched == resp.contents[1] IN
         IF HasSuffix(matched.key, <<Sep>>)
         THEN [err |-> "nil", name |-> TrimRight(localPath, Sep), mode |-> "ModeDir",
               size |-> matched.size, mtime |-> matched.mtime, key |-> matched.key]
         ELSE [err |-> "nil", name |-> localPath, mode |-> "ModePerm",
               size |-> matched.size, mtime |-> matched.mtime, key |-> matched.key]

Stat(path) ==
    /\ Idle
    /\ \E ok \in BOOLEAN :
        LET localPath == TranslatePath(prefix, homePath, path)
            resp == S3ListObjectsV2(store, localPath, 1)
        IN /\ calls' = <<[api |-> "ListObjectsV2", prefix |-> localPath, maxKeys |-> 1]>>
           /\ last' = [op |-> "Stat", path |-> path, localPath |-> localPath,
                       resp |-> IF ok THEN resp ELSE [contents |-> <<>>, keyCount |-> 0],
                       info |-> IF ok THEN StatInfo(localPath, resp)
                                ELSE [err |-> "StorageFailure"]]
           /\ UNCHANGED <<store, blockList>>
           /\ Unchanged

DeleteDirKey(path) == TranslatePath(prefix, homePath, path)

DeleteDir(path) ==
    /\ Idle
    /\ \E ok \in BOOLEAN :
        LET translatedPath == DeleteDirKey(path) IN
        /\ calls' = <<[api |-> "DeleteObject", key |-> translatedPath]>>
        /\ store' = IF ok THEN S3DeleteObject(store, translatedPath) ELSE store
        /\ last' = [op |-> "DeleteDir", path |-> path,
                    err |-> IF ok THEN "nil" ELSE "StorageFailure"]
        /\ UNCHANGED blockList
        /\ Unchanged

DeleteFile(path) ==
    /\ Idle
    /\ \E ok \in BOOLEAN :
        LET translatedPath == TranslatePath(prefix, homePath, path) IN
        /\ calls' = <<[api |-> "DeleteObject", key |-> translatedPath]>>
        /\ store' = IF ok THEN S3DeleteObject(store, translatedPath) ELSE store
        /\ last' = [op |-> "DeleteFile", path |-> path,
                    err |-> IF ok THEN "nil" ELSE "StorageFailure"]
        /\ UNCHANGED blockList
        /\ Unchanged

MakeDirKey(path) ==
    LET localPath == TranslatePath(prefix, homePath, path) IN
    IF ~HasSuffix(localPath, <<Sep>>) THEN Append(localPath, Sep) ELSE localPath

MakeDir(path) ==
    /\ Idle
    /\ \E ok \in BOOLEAN, t \in Times :
        LET localPath == MakeDirKey(path) IN
        /\ Cardinality(Keys(store) \cup {localPath}) <= MaxObjects
        /\ calls' = <<[api |-> "PutObject", key |-> localPath, body |-> <<>>]>>
        /\ store' = IF ok THEN S3PutObject(store, localPath, <<>>, t) ELSE store
        /\ last' = [op |-> "MakeDir", path |-> path,
                    err |-> IF ok THEN "nil" ELSE "StorageFailure"]
        /\ UNCHANGED blockList
        /\ Unchanged

PutFile(path, rawData) ==
    /\ Idle
    /\ \E ok \in BOOLEAN, t \in Times :
        LET localPath == TranslatePath(prefix, homePath, path) IN
        /\ Cardinality(Keys(store) \cup {localPath}) <= MaxObjects
        /\ calls' = <<[api |-> "PutObject", key |-> localPath, body |-> rawData]>>
        /\ store' = IF ok THEN S3PutObject(store, localPath, rawData, t) ELSE store
        /\ last' = [op |-> "PutFile", path |-> path,
                    err |-> IF ok THEN "nil" ELSE "StorageFailure"]
        /\ UNCHANGED blockList
        /\ Unchanged

GetFile(path) ==
    /\ Idle
    /\ \E ok \in BOOLEAN :
        LET localPath == TranslatePath(prefix, homePath, path)
            found == ok /\ localPath \in Keys(store)
        IN /\ calls' = <<[api |-> "GetObject", key |-> localPath]>>
           /\ last' = IF found
                      THEN [op |-> "GetFile", path |-> path, err |-> "nil",
                            body |-> Object(store, localPath).body]
                      ELSE [op |-> "GetFile", path |-> path, err |-> "StorageFailure"]
           /\ UNCHANGED <<store, blockList>>
           /\ Unchanged

\* RenameCalls gone wrong: the delete issued whether or not the copy succeeded.
RenameCallsAlwaysDelete(translatedOldpath, translatedNewpath, copyOk) ==
    <<[api |-> "CopyObject", source |-> Bucket \o <<Sep>> \o translatedOldpath,
       key |-> translatedNewpath],
      [api |-> "DeleteObject", key |-> translatedOldpath]>>

\* The storage calls of Rename, in the order it issues them.
RenameCalls(translatedOldpath, translatedNewpath, copyOk) ==
    LET copy == [api |-> "CopyObject",
                 source |-> Bucket \o <<Sep>> \o translatedOldpath,
                 key |-> translatedNewpath]
        delete == [api |-> "DeleteObject", key |-> translatedOldpath]
    IN IF copyOk THEN <<copy, delete>> ELSE <<copy>>

\* The store after the calls of Rename that succeeded.
RenameStore(st, translatedOldpath, translatedNewpath, copyOk, deleteOk, t) ==
    LET copied == S3CopyObject(st, Bucket \o <<Sep>> \o translatedOldpath,
                               translatedNewpath, t)
    IN IF ~copyOk THEN st
       ELSE IF ~deleteOk THEN copied
       ELSE S3DeleteObject(copied, translatedOldpath)

Rename(oldpath, newpath) ==
    /\ Idle
    /\ \E copyAccepted \in BOOLEAN, deleteOk \in BOOLEAN, t \in Times :
        LET translatedOldpath == TranslatePath(prefix, homePath, oldpath)
            translatedNewpath == TranslatePath(prefix, homePath, newpath)
            \* the copy fails when the store fails it or the source is absent
            copyOk == copyAccepted /\ translatedOldpath \in Keys(store)
        IN /\ Cardinality(Keys(store) \cup {translatedNewpath}) <= MaxObjects
           /\ calls' = RenameCalls(translatedOldpath, translatedNewpath, copyOk)
           /\ store' = RenameStore(store, translatedOldpath, translatedNewpath,
                                   copyOk, deleteOk, t)
           /\ last' = [op |-> "Rename", oldpath |-> oldpath, newpath |-> newpath,
                       oldKey |-> translatedOldpath, newKey |-> translatedNewpath,
                       copyOk |-> copyOk, deleteOk |-> deleteOk,
                       before |-> {o.body : o \in {x \in store : x.key = translatedOldpath}},
                       err |-> IF copyOk /\ deleteOk THEN "nil" ELSE "StorageFailure"]
           /\ UNCHANGED blockList
           /\ Unchanged

(***************************************************************************)
(* The block set of origins (BLOCK_DOWNLOADS_IP_ADDRESSES), which an       *)
(* operator replaces wholesale.                                            *)
(***************************************************************************)
Hosts == {"h1", "h2"}

SetBlockList ==
    /\ Idle
    /\ \E b \in SUBSET Hosts :
        /\ b # blockList
        /\ blockList' = b
        /\ calls' = <<>>
        /\ last' = NoOp
        /\ UNCHANGED store
        /\ Unchanged

Init ==
    /\ prefix \in Prefixes
    /\ homePath = <<"a">>
    /\ remoteIPAddress = [host |-> "h1", port |-> 1234]
    /\ blockList = {}
    /\ store = {}
    /\ listing = <<>>
    /\ calls = <<>>
    /\ last = NoOp

Next ==
    \/ \E path \in DriverPaths : Stat(path)
    \/ \E path \in DriverPaths : DeleteDir(path)
    \/ \E path \in DriverPaths : DeleteFile(path)
    \/ \E path \in DriverPaths : MakeDir(path)
    \/ \E path \in DriverPaths, rawData \in Bodies : PutFile(path, rawData)
    \/ \E path \in DriverPaths : GetFile(path)
    \/ \E oldpath \in DriverPaths, newpath \in DriverPaths : Rename(oldpath, newpath)
    \/ Return

Spec == Init /\ [][Next]_vars

(***************************************************************************)
(* Downloads under a changing block set.                                   *)
(***************************************************************************)
GatePaths == {<<"a">>, <<"/", "a">>}

InitGate ==
    /\ prefix \in Prefixes
    /\ homePath \in Homes
    /\ remoteIPAddress \in [host : Hosts, port : {1234}]
    /\ blockList = {}
    /\ store = {}
    /\ listing = <<>>
    /\ calls = <<>>
    /\ last = NoOp

NextGate ==
    \/ \E path \in GatePaths, rawData \in Bodies : PutFile(path, rawData)
    \/ \E path \in GatePaths : GetFile(path)
    \/ SetBlockList
    \/ Return

SpecGate == InitGate /\ [][NextGate]_vars

(***************************************************************************)
(* ListDir.  The store answers the listing requests of one call from a     *)
(* script of pages (listing): the request without a continuation token     *)
(* gets the first page, and page i carries the token that gets page i+1.   *)
(* A token is the number of pages already served (0: no token).            *)
(***************************************************************************)
ListPaths == {<<".">>, <<"a">>, <<"a", "/">>}

ListedObjects ==
    {[key |-> <<"a", "/">>, size |-> 0, mtime |-> 2],
     [key |-> <<"a", "/", "a">>, size |-> 5, mtime |-> 3],
     [key |-> <<"a", "/", "a", "/">>, size |-> 0, mtime |-> 4],
     [key |-> <<"a", ".">>, size |-> 6, mtime |-> 5]}

ListedPrefixes == {<<"a", "/", "a", "/">>, <<"a", "/", "a", "/", "a", "/">>}

SeqsUpTo(S, n) == UNION {[1..k -> S] : k \in 0..n}

PagesOf(n) ==
    {[contents |-> c, commonPrefixes |-> q, isTruncated |-> t] :
        c \in SeqsUpTo(ListedObjects, n), q \in SeqsUpTo(ListedPrefixes, 1),
        t \in BOOLEAN}

PageItems(pg) == Len(pg.contents) + Len(pg.commonPrefixes)

\* The scripts of at most np pages that list at most ni items in all and end
\* with a page that is not truncated.
RECURSIVE Scripts(_, _)
Scripts(np, ni) ==
    LET fits == {pg \in PagesOf(ni) : PageItems(pg) <= ni} IN
    {<<pg>> : pg \in {x \in fits : ~x.isTruncated}}
    \cup (IF np <= 1 THEN {}
          ELSE UNION {{<<pg>> \o rest : rest \in Scripts(np - 1, ni - PageItems(pg))} :
                      pg \in fits})

ListDirPrefix(path) ==
    LET translated == TranslatePath(prefix, homePath, path) IN
    IF ~HasSuffix(translated, <<Sep>>) THEN Append(translated, Sep) ELSE translated

\* AppendObjects gone wrong: the key equal to the prefix is not skipped.
RECURSIVE AppendObjectsAll(_, _, _)
AppendObjectsAll(files, contents, pfx) ==
    IF contents = <<>> THEN files
    ELSE LET o == Head(contents) IN
         AppendObjectsAll(Append(files, [name |-> TrimPrefix(o.key, pfx),
                                         size |-> o.size, mtime |-> o.mtime,
                                         mode |-> "0"]),
                          Tail(contents), pfx)

RECURSIVE AppendObjects(_, _, _)
AppendObjects(files, contents, pfx) ==
    IF contents = <<>> THEN files
    ELSE LET o == Head(contents) IN
         IF o.key = pfx THEN AppendObjects(files, Tail(contents), pfx)
         ELSE AppendObjects(Append(files, [name |-> TrimPrefix(o.key, pfx),
                                           size |-> o.size, mtime |-> o.mtime,
                                           mode |-> "0"]),
                            Tail(contents), pfx)

RECURSIVE AppendPrefixes(_, _, _)
AppendPrefixes(files, commonPrefixes, pfx) ==
    IF commonPrefixes = <<>> THEN files
    ELSE AppendPrefixes(Append(files,
                               [name |-> TrimSuffix(TrimPrefix(Head(commonPrefixes), pfx),
                                                    <<Sep>>),
                                size |-> DirSize, mtime |-> DirMtime,
                                mode |-> "ModeDir"]),
                        Tail(commonPrefixes), pfx)

ListRequest(pfx, token) ==
    [api |-> "ListObjectsV2", prefix |-> pfx, delimiter |-> <<Sep>>, token |-> token]

\* The loop of ListDir: failAt is the request the store fails (0: none).
RECURSIVE ListLoop(_, _, _, _, _, _)
ListLoop(pages, pfx, token, files, requests, failAt) ==
    LET issued == Append(requests, ListRequest(pfx, token)) IN
    IF failAt = Len(issued)
    THEN [err |-> "StorageFailure", calls |-> issued]
    ELSE LET objects == pages[token + 1]
             files2 == AppendPrefixes(AppendObjects(files, objects.contents, pfx),
                                      objects.commonPrefixes, pfx)
         IN IF ~objects.isTruncated
            THEN [err |-> "nil", files |-> files2, calls |-> issued]
            ELSE ListLoop(pages, pfx, token + 1, files2, issued, failAt)

ListDir(path) ==
    /\ Idle
    /\ \E failAt \in 0..Len(listing) :
        LET pfx == ListDirPrefix(path)
            r == ListLoop(listing, pfx, 0, <<>>, <<>>, failAt)
        IN /\ failAt <= Len(r.calls)
           /\ calls' = r.calls
           /\ last' = [op |-> "ListDir", path |-> path, pfx |-> pfx, result |-> r]
           /\ UNCHANGED <<store, blockList>>
           /\ Unchanged

InitList ==
    /\ prefix = <<>>
    /\ homePath = <<"a">>
    /\ remoteIPAddress = [host |-> "h1", port |-> 1234]
    /\ blockList = {}
    /\ store = {}
    /\ listing \in Scripts(MaxPages, MaxListed)
    /\ calls = <<>>
    /\ last = NoOp

NextList ==
    \/ \E path \in ListPaths : ListDir(path)
    \/ Return

SpecList == InitList /\ [][NextList]_vars

(***************************************************************************)
(* TranslatePath on its own: the arguments are drawn in the initial state  *)
(* and the action applies the function to them.                            *)
(***************************************************************************)
InitTranslate ==
    /\ prefix \in Prefixes
    /\ homePath \in Homes
    /\ remoteIPAddress = [host |-> "h1", port |-> 1234]
    /\ blockList = {}
    /\ store = {}
    /\ listing = <<>>
    /\ calls = <<>>
    /\ last \in {[op |-> "input", path |-> p] : p \in Str(MaxPathLen)}

Translate ==
    /\ last.op = "input"
    /\ last' = [op |-> "TranslatePath", path |-> last.path,
                key |-> TranslatePath(prefix, homePath, last.path)]
    /\ UNCHANGED <<prefix, homePath, remoteIPAddress, blockList, store, listing, calls>>

NextTranslate == Translate

SpecTranslate == InitTranslate /\ [][NextTranslate]_vars

(***************************************************************************)
(* Properties.                                                             *)
(***************************************************************************)
Translated == last.op = "TranslatePath"

\* key is root itself or lies beneath it as a path; beneath the empty root
\* lies every key.
Within(key, root) == root = <<>> \/ key = root \/ HasPrefix(key, root \o <<Sep>>)

\* The traversal of the absolute path raw, resolved from root, leaves root.
Leaves(root, raw) == HasPrefix(raw, <<Sep>>) /\ ~Within(Clean(root \o raw), root)

\* C1: the key TranslatePath returns is the root prefix or lies inside it as a
\* path, and for an absolute path whose traversal leaves the root prefix it is
\* exactly the root prefix.  The key is judged without its leading separators
\* (C6) and, in the clamped case, without the trailing separator restored from
\* the raw path (C7), so that what is violated is the confinement itself.
C1_Confined ==
    Translated =>
        LET key == TrimLeft(last.key, Sep) IN
        /\ Within(key, prefix)
        /\ Leaves(prefix, last.path) => TrimSuffix(key, <<Sep>>) = prefix

\* C6: the string TranslatePath returns never starts with the separator, the
\* empty path included.
C6_RelativeKey == Translated => ~HasPrefix(last.key, <<Sep>>)

\* C7: the result of TranslatePath ends with the separator if and only if the
\* raw path does.
C7_TrailingSeparator ==
    Translated => (HasSuffix(last.key, <<Sep>>) <=> HasSuffix(last.path, <<Sep>>))

\* C2: a GetFile whose origin host is in the block set as it stands at the call
\* issues no storage call and returns Forbidden.
C2_BlockedDownload ==
    (last.op = "GetFile" /\ remoteIPAddress.host \in blockList) =>
        (calls = <<>> /\ last.err = "Forbidden")

\* C3: Rename issues exactly one copy (source bucket/old key, destination new
\* key) and, only if the copy succeeds, exactly one delete of the old key after
\* it; nothing else; it succeeds exactly when both calls do.
C3_RenameCalls ==
    last.op = "Rename" =>
        LET old == TranslatePath(prefix, homePath, last.oldpath)
            new == TranslatePath(prefix, homePath, last.newpath)
            copy == [api |-> "CopyObject", source |-> <<"b", "/">> \o old, key |-> new]
            delete == [api |-> "DeleteObject", key |-> old]
        IN /\ last.copyOk => calls = <<copy, delete>>
           /\ ~last.copyOk => (calls = <<copy>> /\ last.err = "StorageFailure")
           /\ (last.copyOk /\ ~last.deleteOk) => last.err = "StorageFailure"
           /\ (last.copyOk /\ last.deleteOk) => last.err = "nil"

\* The copy of a Rename succeeded and the delete that followed it failed.
C3_Witness ==
    /\ last.op = "Rename"
    /\ last.copyOk /\ ~last.deleteOk
    /\ Len(calls) = 2
    /\ last.oldKey # last.newKey

\* C4: DeleteDir of a path without a trailing separator issues exactly one
\* delete, of the translated path with a separator appended: the marker key
\* MakeDir writes for that path.
C4_DeleteDirMarker ==
    (last.op = "DeleteDir" /\ ~HasSuffix(last.path, <<Sep>>)) =>
        /\ calls = <<[api |-> "DeleteObject",
                      key |-> Append(TranslatePath(prefix, homePath, last.path), Sep)]>>
        /\ calls[1].key = MakeDirKey(last.path)

\* The entry the claim describes for a listed object and for a common prefix.
FileEntry(o, pfx) ==
    [name |-> IF HasPrefix(o.key, pfx) THEN SubSeq(o.key, Len(pfx) + 1, Len(o.key))
              ELSE o.key,
     size |-> o.size, mtime |-> o.mtime, isDir |-> FALSE]

DirEntry(cp, pfx) ==
    LET rel == IF HasPrefix(cp, pfx) THEN SubSeq(cp, Len(pfx) + 1, Len(cp)) ELSE cp
    IN [name |-> IF rel # <<>> /\ rel[Len(rel)] = Sep THEN SubSeq(rel, 1, Len(rel) - 1)
                 ELSE rel,
        isDir |-> TRUE]

PageEntries(pg, pfx) ==
    LET kept == SelectSeq(pg.contents, LAMBDA o : o.key # pfx)
    IN [i \in 1..Len(kept) |-> FileEntry(kept[i], pfx)]
       \o [i \in 1..Len(pg.commonPrefixes) |-> DirEntry(pg.commonPrefixes[i], pfx)]

RECURSIVE Concatenation(_, _, _)
Concatenation(pages, n, pfx) ==
    IF n = 0 THEN <<>>
    ELSE Concatenation(pages, n - 1, pfx) \o PageEntries(pages[n], pfx)

FirstFinal(pages) ==
    CHOOSE n \in 1..Len(pages) :
        ~pages[n].isTruncated /\ \A m \in 1..(n - 1) : pages[m].isTruncated

Reported(f) ==
    IF f.mode = "ModeDir" THEN [name |-> f.name, isDir |-> TRUE]
    ELSE [name |-> f.name, size |-> f.size, mtime |-> f.mtime, isDir |-> FALSE]

\* C5: ListDir requests the pages from the first up to the first one that is
\* not truncated, following the cursor, and returns the page-by-page
\* concatenation of the object keys other than the prefix (files, prefix
\* stripped) and then the common prefixes (directories, prefix and trailing
\* separator stripped).
C5_ListDir ==
    (last.op = "ListDir" /\ last.result.err = "nil") =>
        LET n == FirstFinal(listing)
            pfx == last.pfx
            want == Concatenation(listing, n, pfx)
            got == last.result.files
        IN /\ calls = [i \in 1..n |-> [api |-> "ListObjectsV2", prefix |-> pfx,
                                       delimiter |-> <<Sep>>, token |-> i - 1]]
           /\ Len(got) = Len(want)
           /\ \A i \in 1..Len(got) : Reported(got[i]) = want[i]
           /\ \A i \in 1..Len(got) : got[i].mode # "ModeDir" => got[i].name # <<>>

\* A listing of two pages was followed to its end: it returned the marker of
\* the listed directory, which is left out, another key and a common prefix.
C5_Witness ==
    /\ last.op = "ListDir" /\ last.result.err = "nil"
    /\ Len(calls) = 2
    /\ \E i \in 1..2 : \E j \in 1..Len(listing[i].contents) :
           listing[i].contents[j].key = last.pfx
    /\ Len(last.result.files) = 2
    /\ last.result.files[1].mode = "ModeDir"
    /\ last.result.files[2].mode # "ModeDir"

\* C8: Stat fails with NotFound exactly when no key matches the translated
\* path; otherwise the entry is a directory iff the matched key ends with the
\* separator, its name is the translated path, stripped of its trailing
\* separator in that case only, and its size and time are the matched object's.
C8_Stat ==
    (last.op = "Stat" /\ last.info.err # "StorageFailure") =>
        LET localPath == TranslatePath(prefix, homePath, last.path)
            matching == {o \in store : HasPrefix(o.key, localPath)}
        IN /\ calls = <<[api |-> "ListObjectsV2", prefix |-> localPath, maxKeys |-> 1]>>
           /\ (last.info.err = "ErrNotExist") <=> (matching = {})
           /\ last.info.err = "nil" =>
                \E m \in matching :
                    /\ m.key = last.info.key
                    /\ (last.info.mode = "ModeDir") <=> HasSuffix(m.key, <<Sep>>)
                    /\ last.info.name = IF HasSuffix(m.key, <<Sep>>)
                                        THEN TrimSuffix(localPath, <<Sep>>)
                                        ELSE localPath
                    /\ last.info.size = Len(m.body)
                    /\ last.info.mtime = m.mtime

\* Stat of a path with a trailing separator matched a key that ends with the
\* separator: a directory, reported without the separator.
C8_Witness ==
    /\ last.op = "Stat" /\ last.info.err = "nil"
    /\ HasSuffix(last.localPath, <<Sep>>)
    /\ last.info.mode = "ModeDir"
    /\ last.info.name # last.localPath
    /\ Cardinality(store) = 2

\* C9: after a Rename that returns success, the translated new key holds the
\* content the translated old key held before the call.
C9_RenameKeepsContent ==
    (last.op = "Rename" /\ last.err = "nil") =>
        \E o \in store : o.key = last.newKey /\ last.before = {o.body}

DirPrefix(localPath) ==
    IF HasSuffix(localPath, <<Sep>>) THEN localPath ELSE Append(localPath, Sep)

\* C10: Stat returns an entry only if the store holds the translated path
\* itself or a key beneath it as a directory, and when the marker of the
\* translated path exists (and no object at the path itself) it reports a
\* directory.
C10_StatExact ==
    (last.op = "Stat" /\ last.info.err # "StorageFailure") =>
        LET localPath == last.localPath IN
        /\ last.info.err = "nil" =>
              \E k \in Keys(store) : k = localPath \/ HasPrefix(k, DirPrefix(localPath))
        /\ (DirPrefix(localPath) \in Keys(store)
              /\ (localPath \in Keys(store) => localPath = DirPrefix(localPath))) =>
              (last.info.err = "nil" /\ last.info.mode = "ModeDir")

====
